---------------------------- MODULE Spec2Model ----------------------------
(***************************************************************************)
(* Maximum number of points on one line (src/src/main.rs).                 *)
(*                                                                         *)
(* The program is a chain of pure functions over i32 values and HashMaps.  *)
(* The model runs one call of max_collinear_points as a state machine:     *)
(* the conversion of the raw input, the for_each closure of                *)
(* lines_containing (one step per scanned point), the bucket selection of  *)
(* collinear_group together with the insertion made by collinear_groups,   *)
(* and the final maximum.  A HashMap is a function whose DOMAIN is the key *)
(* set; its iteration order is unspecified (RandomState), so max_by over a *)
(* HashMap may return any entry of maximal length.  A panic (division by   *)
(* zero, unwrap of None) ends the call in pc = "panicked".                 *)
(* Coordinates stay far below the i32 range, so no operation wraps.        *)
(***************************************************************************)
EXTENDS Integers, Sequences, FiniteSets

VARIABLES raw_points, points, pc, i, j, lines, groups, call, result

vars == <<raw_points, points, pc, i, j, lines, groups, call, result>>

(***************************************************************************)
(* Bounds of the enumerated inputs.                                        *)
(***************************************************************************)
MaxCoord == 0

MaxPoints == 3

Coord == (-1)..MaxCoord

(***************************************************************************)
(* The inputs of main and of the three tests of the source, and two more   *)
(* three-point inputs: a vertical line, and a line whose slopes need       *)
(* reducing.                                                               *)
(***************************************************************************)
MainInput == << <<0, 0>>, <<1, 1>>, <<2, 2>> >>

Test0Input == << <<0, 0>> >>

Test1Input == << <<1, 1>>, <<2, 2>>, <<3, 3>> >>

Test2Input == << <<1, 1>>, <<3, 2>>, <<5, 3>>, <<4, 1>>, <<2, 3>>, <<1, 4>> >>

VerticalInput == << <<5, 0>>, <<5, 3>>, <<5, -2>> >>

ReducedInput == << <<0, 0>>, <<2, 4>>, <<1, 2>> >>

\* Every order of the entries of the list s.
Orderings(s) ==
    {[k \in DOMAIN s |-> s[p[k]]] :
        p \in {q \in [DOMAIN s -> DOMAIN s] :
                  \A k, m \in DOMAIN s : q[k] = q[m] => k = m}}

\* Every list of at most MaxPoints grid points, the inputs above, and the
\* reorderings of the three-point ones.
Inputs ==
    UNION {[1..n -> Coord \X Coord] : n \in 0..MaxPoints}
        \cup {Test0Input, Test2Input}
        \cup Orderings(MainInput) \cup Orderings(Test1Input)
        \cup Orderings(VerticalInput) \cup Orderings(ReducedInput)

(***************************************************************************)
(* i32 arithmetic.                                                         *)
(***************************************************************************)
abs(a) == IF a < 0 THEN -a ELSE a

\* Rust's `/` on i32 truncates toward zero.  A zero divisor panics; the
\* actions test for it before any quotient is used, so the value given
\* here for b = 0 is never read.
TruncDiv(a, b) ==
    IF b = 0 THEN 0
    ELSE IF (a >= 0) = (b > 0) THEN abs(a) \div abs(b)
    ELSE -(abs(a) \div abs(b))

(***************************************************************************)
(* mod rational                                                            *)
(***************************************************************************)
RECURSIVE greatest_common_divisor(_, _)
greatest_common_divisor(a, b) ==
    IF a = 0 THEN b
    ELSE IF b = 0 THEN a
    ELSE greatest_common_divisor(abs(b), abs(a) % abs(b))

\* The divisors of the `%` operations the recursion evaluates.
RECURSIVE gcd_rem_divisors(_, _)
gcd_rem_divisors(a, b) ==
    IF a = 0 THEN {}
    ELSE IF b = 0 THEN {}
    ELSE {abs(b)} \cup gcd_rem_divisors(abs(b), abs(a) % abs(b))

RationalNumber_new_unreduced(numerator, denominator) ==
    [numerator |-> numerator, denominator |-> denominator]

RationalNumber_new(numerator, denominator) ==
    LET gcd == greatest_common_divisor(numerator, denominator)
    IN  [numerator   |-> TruncDiv(numerator, gcd),
         denominator |-> TruncDiv(denominator, gcd)]

(***************************************************************************)
(* Point, Slope, Line                                                      *)
(***************************************************************************)
Point(x, y) == [x |-> x, y |-> y]

\* enum Slope: the variant, and the payload of Defined (zero for Undefined).
Undefined == [defined |-> FALSE, r |-> [numerator |-> 0, denominator |-> 0]]

Defined(r) == [defined |-> TRUE, r |-> r]

slope_always_defined(a, b) == Defined(RationalNumber_new(a.y - b.y, a.x - b.x))

slope_x_over_x(a, b) ==
    IF a.x = b.x THEN Undefined
    ELSE Defined(RationalNumber_new(a.x - b.x, a.x - b.x))

slope(a, b) ==
    IF a.x = b.x THEN Undefined
    ELSE Defined(RationalNumber_new(a.y - b.y, a.x - b.x))

Line_new(a, b) ==
    LET s == slope(a, b)
    IN  IF ~s.defined
        THEN [slope |-> Undefined, x_intercect |-> a.x]
        ELSE [slope |-> s,
              x_intercect |-> a.y - TruncDiv(s.r.numerator * a.x, s.r.denominator)]

\* Every divisor of a `/` or `%` evaluated during Line::new(a, b): the
\* remainders of the gcd recursion, the gcd that RationalNumber::new
\* divides by, and the reduced denominator that Line::new divides by.
Line_new_divisors(a, b) ==
    LET s == slope(a, b)
    IN  IF ~s.defined THEN {}
        ELSE gcd_rem_divisors(a.y - b.y, a.x - b.x)
                \cup {greatest_common_divisor(a.y - b.y, a.x - b.x)}
                \cup {s.r.denominator}

(***************************************************************************)
(* The record of the latest Line::new call (an observation of the run, not *)
(* a field of the program).                                                *)
(***************************************************************************)
NoCall ==
    [made |-> FALSE, a |-> Point(0, 0), b |-> Point(0, 0),
     line |-> [slope |-> Undefined, x_intercect |-> 0], divisors |-> {}]

CallOf(a, b) ==
    [made |-> TRUE, a |-> a, b |-> b,
     line |-> Line_new(a, b), divisors |-> Line_new_divisors(a, b)]

(***************************************************************************)
(* HashMap helpers.                                                        *)
(***************************************************************************)
EmptyMap == [k \in {} |-> <<>>]

Insert(map, key, value) ==
    [k \in DOMAIN map \cup {key} |-> IF k = key THEN value ELSE map[k]]

\* iter().max_by(|p, q| p.1.len().cmp(&q.1.len())) over a HashMap: the keys
\* it may return; empty when the map is empty (None).
max_by_len_any(map) == DOMAIN map

max_by_len(map) ==
    {k \in DOMAIN map : \A q \in DOMAIN map : Len(map[q]) <= Len(map[k])}

(***************************************************************************)
(* lines_containing: the filter and the two branches of the closure.       *)
(***************************************************************************)
is_other_unfiltered(other_point, point) == TRUE

is_other(other_point, point) == other_point # point

new_bucket_without_point(point, other_point) == <<other_point>>

new_bucket(point, other_point) == <<point, other_point>>

push_with_point(bucket, point, other_point) ==
    Append(Append(bucket, point), other_point)

push(bucket, point, other_point) == Append(bucket, other_point)

Init ==
    /\ raw_points \in Inputs
    /\ points = <<>>
    /\ pc = "called"
    /\ i = 1
    /\ j = 1
    /\ lines = EmptyMap
    /\ groups = EmptyMap
    /\ call = NoCall
    /\ result = 0

\* max_collinear_points, lines 121-124: the raw pairs become Points, and
\* collinear_groups starts its pass over them.
Convert ==
    /\ pc = "called"
    /\ points' = [k \in 1..Len(raw_points) |->
                    Point(raw_points[k][1], raw_points[k][2])]
    /\ pc' = IF Len(raw_points) = 0 THEN "maximize" ELSE "scan"
    /\ UNCHANGED <<raw_points, i, j, lines, groups, call, result>>

\* lines_containing: the filter rejects an entry equal to the reference.
Skip ==
    /\ pc = "scan"
    /\ j <= Len(points)
    /\ ~is_other(points[j], points[i])
    /\ j' = j + 1
    /\ UNCHANGED <<raw_points, points, pc, i, lines, groups, call, result>>

\* lines_containing: the for_each closure on one other point.
Bucket ==
    /\ pc = "scan"
    /\ j <= Len(points)
    /\ is_other(points[j], points[i])
    /\ LET c == CallOf(points[i], points[j])
       IN  /\ call' = c
           /\ IF 0 \in c.divisors
              THEN /\ pc' = "panicked"
                   /\ UNCHANGED <<j, lines>>
              ELSE /\ lines' =
                        IF c.line \in DOMAIN lines
                        THEN [lines EXCEPT ![c.line] =
                                push(lines[c.line], points[i], points[j])]
                        ELSE Insert(lines, c.line, new_bucket(points[i], points[j]))
                   /\ j' = j + 1
                   /\ pc' = pc
    /\ UNCHANGED <<raw_points, points, i, groups, result>>

\* collinear_group picks a longest bucket of the finished map (or [point]
\* when there is none) and collinear_groups stores it under the point.
SelectGroup ==
    /\ pc = "scan"
    /\ j > Len(points)
    /\ IF lines = EmptyMap
       THEN groups' = Insert(groups, points[i], <<points[i]>>)
       ELSE \E line \in max_by_len(lines) :
                groups' = Insert(groups, points[i], lines[line])
    /\ lines' = EmptyMap
    /\ j' = 1
    /\ i' = i + 1
    /\ pc' = IF i = Len(points) THEN "maximize" ELSE "scan"
    /\ UNCHANGED <<raw_points, points, call, result>>

MaximizeUnwrapOrDefault ==
    /\ pc = "maximize"
    /\ IF groups = EmptyMap
       THEN result' = 0
       ELSE \E point \in max_by_len(groups) : result' = Len(groups[point])
    /\ pc' = "done"
    /\ UNCHANGED <<raw_points, points, i, j, lines, groups, call>>

\* max_collinear_points, lines 126-130: the longest group, unwrapped.
Maximize ==
    /\ pc = "maximize"
    /\ IF max_by_len(groups) = {}
       THEN /\ pc' = "panicked"
            /\ result' = result
       ELSE /\ \E point \in max_by_len(groups) : result' = Len(groups[point])
            /\ pc' = "done"
    /\ UNCHANGED <<raw_points, points, i, j, lines, groups, call>>

Next == Convert \/ Skip \/ Bucket \/ SelectGroup \/ Maximize

Spec == Init /\ [][Next]_vars

(***************************************************************************)
(* Reference notions used to state the properties.                         *)
(***************************************************************************)
PointSet == {points[k] : k \in DOMAIN points}

Distinct == \A k, m \in DOMAIN points : points[k] = points[m] => k = m

\* The exact cross-product test: c lies on the line through a and b.
Cross(a, b, c) == (b.x - a.x) * (c.y - a.y) = (b.y - a.y) * (c.x - a.x)

SetMax(S) == CHOOSE v \in S : \A w \in S : w <= v

\* The largest number of points of S on one straight line.
MaxOnLine(S) ==
    IF Cardinality(S) = 1 THEN 1
    ELSE SetMax({Cardinality({c \in S : Cross(pr[1], pr[2], c)}) :
                    pr \in {qr \in S \X S : qr[1] # qr[2]}})

\* C1: for a non-empty input of pairwise distinct points, the value
\* returned by max_collinear_points is the maximum, over all straight
\* lines, of the number of input points on the line (cross-product test).
C1_ResultIsMaxOnLine ==
    (pc = "done" /\ Distinct) => result = MaxOnLine(PointSet)

C1_Witness ==
    /\ raw_points = Test2Input
    /\ pc = "done"
    /\ result = 4

\* C2: for a non-empty input, duplicates allowed, the returned value r
\* satisfies 1 <= r <= len(points).
C2_ResultWithinLength ==
    pc = "done" => (1 <= result /\ result <= Len(raw_points))

C2_Witness ==
    /\ pc = "done"
    /\ ~Distinct
    /\ result = Len(raw_points)
    /\ result = 3

\* C3: when every input point has the same coordinates (input non-empty),
\* collinear_group returns the one-element list [point] for each reference
\* and max_collinear_points returns 1.
AllSame == \A k, m \in DOMAIN raw_points : raw_points[k] = raw_points[m]

C3_AllSameGivesOne ==
    (Len(raw_points) > 0 /\ AllSame) =>
        /\ \A p \in DOMAIN groups : groups[p] = <<p>>
        /\ pc \in {"done", "panicked"} => (pc = "done" /\ result = 1)

C3_Witness ==
    /\ Len(raw_points) = 3
    /\ AllSame
    /\ pc = "done"
    /\ groups = Insert(EmptyMap, points[1], <<points[1]>>)

\* The largest number of input entries other than p that share one line
\* key with p, plus one for p (1 when there is no other entry): counts
\* over the multiset of input points.
GroupSize(p) ==
    LET others == {k \in DOMAIN points : points[k] # p}
        key == [k \in others |-> Line_new(p, points[k])]
    IN  IF others = {} THEN 1
        ELSE SetMax({1 + Cardinality({m \in others : key[m] = key[k]}) :
                        k \in others})

MultisetResult == SetMax({GroupSize(p) : p \in PointSet})

\* C4: the returned integer is a function of the input multiset only:
\* whatever the order of the input list (hence of the reference points)
\* and whichever winner max_by takes among equal-length buckets and among
\* equal-length groups, the result is the one value determined by the
\* multiplicities of the input points.
C4_ResultFunctionOfMultiset ==
    pc = "done" => result = MultisetResult

\* three distinct points, no bucket longer than another, every group tied
C4_Witness ==
    /\ pc = "done"
    /\ Len(points) = 3
    /\ Distinct
    /\ result = 2
    /\ Cardinality(max_by_len(groups)) = 3

\* C5: on a zero-length input no integer is returned: collinear_groups is
\* empty, the maximum over it is None and the call ends in the panic of
\* unwrap.
C5_EmptyInputPanics ==
    raw_points = <<>> =>
        /\ groups = EmptyMap
        /\ pc \in {"called", "maximize", "panicked"}

C5_Witness ==
    /\ raw_points = <<>>
    /\ pc = "panicked"

InBucket(p, L) == \E k \in DOMAIN lines[L] : lines[L][k] = p

\* C6: for the reference point a and all b # a, c # a collinear with a,
\* Line::new(a, b) = Line::new(a, c), so that once lines_containing has
\* scanned the input b and c are in one bucket.
C6_SameLineSameKey ==
    (pc = "scan" /\ j > Len(points)) =>
        \A k, m \in DOMAIN points :
            (/\ points[k] # points[i]
             /\ points[m] # points[i]
             /\ Cross(points[i], points[k], points[m]))
            => /\ Line_new(points[i], points[k]) = Line_new(points[i], points[m])
               /\ \E L \in DOMAIN lines :
                    InBucket(points[k], L) /\ InBucket(points[m], L)

Divides(d, m) == \E k \in (-abs(m))..abs(m) : m = k * d

\* C7: in every call Line::new(a, b) of lines_containing with a.x # b.x the
\* division of the intercept is exact: the reduced denominator divides
\* numerator * a.x, and the stored intercept is the true y-intercept.
C7_InterceptDivisionExact ==
    (call.made /\ call.line.slope.defined) =>
        LET f == call.line.slope.r
        IN  /\ Divides(f.denominator, f.numerator * call.a.x)
            /\ call.line.x_intercect * f.denominator
                 = call.a.y * f.denominator - f.numerator * call.a.x

\* The greatest common divisor of two naturals, not both zero.
MathGcd(x, y) ==
    SetMax({g \in 1..(x + y) : Divides(g, x) /\ Divides(g, y)})

SameDirection(a, b, c) ==
    /\ Cross(a, b, c)
    /\ (b.x - a.x) * (c.x - a.x) > 0

\* C8: RationalNumber::new(n, d), d # 0, stores (num, den) in lowest terms
\* with the same ratio: gcd(|num|, |den|) = 1 and num * d = n * den; hence
\* two partners in the same direction from the reference point get equal
\* slope values.
C8_FractionReduced ==
    /\ (call.made /\ call.line.slope.defined) =>
          LET f == call.line.slope.r
              n == call.a.y - call.b.y
              d == call.a.x - call.b.x
          IN  /\ MathGcd(abs(f.numerator), abs(f.denominator)) = 1
              /\ f.numerator * d = n * f.denominator
    /\ (pc = "scan" /\ j > Len(points)) =>
          \A k, m \in DOMAIN points :
              SameDirection(points[i], points[k], points[m])
              => slope(points[i], points[k]) = slope(points[i], points[m])

\* a fraction that needs reducing, with a negative denominator
C8_Witness ==
    /\ call.made
    /\ call.a.y - call.b.y = 2
    /\ call.a.x - call.b.x = -2
    /\ call.line.slope.r = [numerator |-> 1, denominator |-> -1]

\* C9: on a non-empty input no division by zero occurs: a slope fraction is
\* built only when a.x # b.x, and neither a remainder of the gcd recursion,
\* nor the gcd divided by, nor the reduced denominator is 0.
C9_NoDivisionByZero ==
    raw_points # <<>> =>
        /\ pc # "panicked"
        /\ 0 \notin call.divisors
        /\ (call.made /\ call.line.slope.defined) => call.a.x # call.b.x

\* numerator 0 over a negative denominator: the gcd returned is negative
C9_Witness ==
    /\ call.made
    /\ call.line.slope.defined
    /\ call.a.y = call.b.y
    /\ call.a.x < call.b.x
    /\ greatest_common_divisor(0, call.a.x - call.b.x) < 0

\* C10: every bucket of lines_containing starts with the reference point,
\* has at least two entries, holds no other entry equal to the reference
\* point, holds only points of one line through the reference point, and
\* is no longer than the number of input entries on that line.
C10_BucketsNeverOverGroup ==
    pc = "scan" =>
        \A L \in DOMAIN lines :
            LET l == lines[L]
            IN  /\ Len(l) >= 2
                /\ l[1] = points[i]
                /\ \A k \in 2..Len(l) :
                     /\ l[k] # points[i]
                     /\ Cross(points[i], l[2], l[k])
                     /\ Line_new(points[i], l[k]) = L
                /\ Len(l) <= Cardinality({k \in DOMAIN points :
                                            Cross(points[i], l[2], points[k])})

\* two buckets side by side, one of them holding three entries
C10_Witness ==
    /\ pc = "scan"
    /\ Cardinality(DOMAIN lines) = 2
    /\ \E L \in DOMAIN lines : Len(lines[L]) = 3

=============================================================================
